---- MODULE Spec2Model ----
(***************************************************************************)
(* A model of pdf.py: the PPTX-to-PDF converter (sequential and pooled),   *)
(* the PDF merger with its interactive order prompt, the range parser and  *)
(* the command-line dispatch.                                              *)
(*                                                                         *)
(* A Python str is a sequence of one-character strings; a path is such a   *)
(* sequence too.                                                           *)
(***************************************************************************)
EXTENDS Integers, Sequences, FiniteSets, TLC

VARIABLES
    input_str,      \* parse_range_input: the argument input_str
    max_len,        \* parse_range_input: the argument max_len
    result,         \* parse_range_input: what the call produced
    argv_action,    \* sys.argv[1]
    parallel,       \* parallel_mode / the parameter parallel
    input_args,     \* the file-or-pattern arguments of the command line
    listing,        \* the working directory, in the order the system lists it
    stdin,          \* the line the user types at the order prompt
    pc,             \* where the program is
    exit_code,      \* the exit status once the program has ended, else -1
    valid_files,    \* the extension-filtered list of convert_pptx_to_pdf / merge_pdfs
    dir_created,    \* os.makedirs(output_dir) has run
    behaviour,      \* per conversion job: what the file system and the converter did
    outcome,        \* per conversion job: what convert_single came to
    status,         \* per conversion job: its state in the worker pool
    pending_exc,    \* the main process holds a worker's exception
    pos,            \* the next position of the loop in progress
    seq_outcome,    \* the outcome of the sequential run of the same batch
    order_input,    \* the user's answer to the order prompt
    prompted,       \* input() has been called
    ordered_files,  \* the final merge order
    checked,        \* per position of the merge loop: os.path.exists(pdf)
    merged,         \* the files appended to the PdfMerger, in order
    output          \* the output file of the merge

rangeVars == <<input_str, max_len, result>>

cliVars == <<argv_action, parallel, input_args, listing, stdin>>

convVars == <<dir_created, behaviour, outcome, status, pending_exc, seq_outcome>>

mergeVars == <<order_input, prompted, ordered_files, checked, merged, output>>

vars == <<rangeVars, cliVars, pc, exit_code, valid_files, pos, convVars, mergeVars>>

----------------------------------------------------------------------------
(* Bounds of the model *)

\* longest string handed to parse_range_input on its own
MaxStrLen == 5
\* largest max_len handed to parse_range_input on its own
MaxLen == 2
\* most file-or-pattern arguments on the command line
MaxArgs == 2
\* most files in the working directory
MaxDir == 2
\* longest answer to the order prompt in a merge of resolved files
MaxSelLen == 3
\* most resolved files in a merge of resolved files
MaxFiles == 2
\* most files of a batch converted in both modes
MaxJobs == 5

----------------------------------------------------------------------------
(* Python strings *)

Digits == <<"0", "1", "2", "3", "4", "5", "6", "7", "8", "9">>

IsDigit(c) == \E d \in 1..10 : Digits[d] = c

DigitVal(c) == (CHOOSE d \in 1..10 : Digits[d] = c) - 1

\* str.isspace for the characters the model uses
IsSpace(c) == c = " "

\* the characters a range string is drawn from
RangeChars == {"0", "1", "2", ",", "-", ":", " ", "x"}

SeqsUpTo(S, n) == UNION {[1..k -> S] : k \in 0..n}

\* c in s
Contains(s, c) == \E i \in 1..Len(s) : s[i] = c

RECURSIVE LStrip(_)
LStrip(s) ==
    IF s # <<>> /\ IsSpace(Head(s)) THEN LStrip(Tail(s)) ELSE s

RECURSIVE RStrip(_)
RStrip(s) ==
    IF s # <<>> /\ IsSpace(s[Len(s)]) THEN RStrip(SubSeq(s, 1, Len(s) - 1)) ELSE s

\* str.strip()
Strip(s) == RStrip(LStrip(s))

\* str.split(d) for a one-character separator: never empty, keeps empty pieces
RECURSIVE Split(_, _)
Split(s, d) ==
    IF ~Contains(s, d)
    THEN <<s>>
    ELSE LET p == CHOOSE i \in 1..Len(s) :
                      s[i] = d /\ \A j \in 1..(i - 1) : s[j] # d
         IN  <<SubSeq(s, 1, p - 1)>> \o Split(SubSeq(s, p + 1, Len(s)), d)

\* the digits of a decimal literal, most significant first
RECURSIVE DecimalVal(_)
DecimalVal(ds) ==
    IF ds = <<>> THEN 0
    ELSE 10 * DecimalVal(SubSeq(ds, 1, Len(ds) - 1)) + DigitVal(ds[Len(ds)])

\* the literal int() reads once the surrounding whitespace is gone
IntSign(t) == IF t # <<>> /\ t[1] \in {"+", "-"} THEN t[1] ELSE ""

IntDigits(t) == IF IntSign(t) = "" THEN t ELSE Tail(t)

\* int(s) does not raise ValueError
IntOk(s) ==
    LET ds == IntDigits(Strip(s))
    IN  ds # <<>> /\ \A i \in 1..Len(ds) : IsDigit(ds[i])

\* int(s), where IntOk(s)
IntOf(s) ==
    LET t == Strip(s)
        v == DecimalVal(IntDigits(t))
    IN  IF IntSign(t) = "-" THEN 0 - v ELSE v

\* range(a, b + 1) as a list
RangeList(a, b) == [k \in 1..(b - a + 1) |-> a + k - 1]

----------------------------------------------------------------------------
(* parse_range_input *)

Raise(msg) == [ok |-> FALSE, error |-> msg, indices |-> <<>>]

Return(xs) == [ok |-> TRUE, error |-> "", indices |-> xs]

\* one range token appended without the conversion to 0-indexed positions
RangeTokenOneIndexed(start, end) == RangeList(start, end)

\* lines 103-104: every number of the range, converted to 0-indexed
RangeTokenIndices(start, end) ==
    [k \in 1..(end - start + 1) |-> (start + k - 1) - 1]

\* lines 89-109: the body of the loop for one token; ok carries what is appended
ParseToken(tok) ==
    LET token == Strip(tok)
    IN  IF Contains(token, "-") \/ Contains(token, ":")
        THEN LET delim == IF Contains(token, "-") THEN "-" ELSE ":"
                 parts == Split(token, delim)
             IN  IF Len(parts) # 2
                 THEN Raise("Invalid range token")
                 ELSE IF ~(IntOk(parts[1]) /\ IntOk(parts[2]))
                 THEN Raise("Non-integer range bounds")
                 ELSE IF IntOf(parts[1]) > IntOf(parts[2])
                 THEN Raise("Range start must not be greater than end")
                 ELSE Return(RangeTokenIndices(IntOf(parts[1]), IntOf(parts[2])))
        ELSE IF IntOk(token)
             THEN Return(<<IntOf(token) - 1>>)
             ELSE Raise("Invalid token, not an integer")

\* lines 88-109: the loop over the tokens; the first raise ends it
RECURSIVE ParseTokens(_, _)
ParseTokens(tokens, indices) ==
    IF tokens = <<>> THEN Return(indices)
    ELSE LET r == ParseToken(Head(tokens))
         IN  IF r.ok THEN ParseTokens(Tail(tokens), indices \o r.indices) ELSE r

\* a validation that lets the position max_len through
IndexOutOfRangeLoose(idx, maxLen) == idx < 0 \/ idx > maxLen

\* line 111: the test of one index
IndexOutOfRange(idx, maxLen) == idx < 0 \/ idx >= maxLen

\* lines 86-113
parse_range_input(inputStr, maxLen) ==
    LET r == ParseTokens(Split(inputStr, ","), <<>>)
    IN  IF ~r.ok THEN r
        ELSE IF \E k \in 1..Len(r.indices) : IndexOutOfRange(r.indices[k], maxLen)
        THEN Raise("One or more indices are out of valid range.")
        ELSE Return(r.indices)

----------------------------------------------------------------------------
(* Paths, glob and the extension filter *)

UpperCase == <<"A", "B", "C", "D", "E", "F", "G", "H", "I", "J", "K", "L", "M",
               "N", "O", "P", "Q", "R", "S", "T", "U", "V", "W", "X", "Y", "Z">>

LowerCase == <<"a", "b", "c", "d", "e", "f", "g", "h", "i", "j", "k", "l", "m",
               "n", "o", "p", "q", "r", "s", "t", "u", "v", "w", "x", "y", "z">>

LowerChar(c) ==
    IF \E k \in 1..26 : UpperCase[k] = c
    THEN LowerCase[CHOOSE k \in 1..26 : UpperCase[k] = c]
    ELSE c

\* str.lower()
Lower(s) == [i \in 1..Len(s) |-> LowerChar(s[i])]

\* str.endswith(suffix)
EndsWith(s, suffix) ==
    /\ Len(s) >= Len(suffix)
    /\ SubSeq(s, Len(s) - Len(suffix) + 1, Len(s)) = suffix

PPTX_EXT == <<".", "p", "p", "t", "x">>

PDF_EXT == <<".", "p", "d", "f">>

\* lines 54 and 153: file.lower().endswith(ext)
HasExt(file, ext) == EndsWith(Lower(file), ext)

\* the files the model's directory may hold
A_PDF == <<"a", ".", "p", "d", "f">>

B_PDF == <<"B", ".", "P", "D", "F">>

C_PPTX == <<"c", ".", "P", "p", "t", "X">>

FileNames == {A_PDF, B_PDF, C_PPTX}

\* the wildcard patterns the command line may carry
PAT_ALL == <<"*">>

PAT_ONE_P == <<"?", ".", "p", "*">>

Patterns == {PAT_ALL, PAT_ONE_P}

\* fnmatch.fnmatchcase for patterns of literals, * and ?
RECURSIVE FnMatch(_, _)
FnMatch(name, pat) ==
    IF pat = <<>> THEN name = <<>>
    ELSE IF Head(pat) = "*"
    THEN FnMatch(name, Tail(pat)) \/ (name # <<>> /\ FnMatch(Tail(name), pat))
    ELSE /\ name # <<>>
         /\ (Head(pat) = "?" \/ Head(pat) = Head(name))
         /\ FnMatch(Tail(name), Tail(pat))

\* glob's rule for dot files: matched only by a pattern that starts with a dot
GlobVisible(name, pat) == ~(name # <<>> /\ name[1] = ".") \/ (pat # <<>> /\ pat[1] = ".")

\* glob.glob(pattern) in a directory listed as dir: the matches, in listing order
Glob(pat, dir) == SelectSeq(dir, LAMBDA name : FnMatch(name, pat) /\ GlobVisible(name, pat))

\* lines 44 and 145: "*" in item or "?" in item
HasWildcard(item) == Contains(item, "*") \/ Contains(item, "?")

\* an expansion that globs every argument, literal paths too
ExpandItemAlwaysGlob(item, dir) == Glob(item, dir)

\* lines 44-47 and 145-148: what one argument adds to the list
ExpandItem(item, dir) ==
    IF HasWildcard(item) THEN Glob(item, dir) ELSE <<item>>

\* lines 42-47 and 143-148: the loop over the arguments
RECURSIVE ExpandArgs(_, _, _)
ExpandArgs(items, dir, acc) ==
    IF items = <<>> THEN acc
    ELSE ExpandArgs(Tail(items), dir, acc \o ExpandItem(Head(items), dir))

\* lines 52-57 and 151-156: the loop that keeps the files with the extension
RECURSIVE FilterExt(_, _, _)
FilterExt(files, ext, acc) ==
    IF files = <<>> THEN acc
    ELSE FilterExt(Tail(files), ext,
                   IF HasExt(Head(files), ext) THEN Append(acc, Head(files)) ELSE acc)

\* lines 216-219: one wildcard argument is passed as a str, anything else as a list
PassedAsStr(args) == Len(args) = 1 /\ HasWildcard(args[1])

\* lines 39-49: the str branch globs the pattern, the list branch loops
ConvertExpand(args, dir) ==
    IF PassedAsStr(args) THEN Glob(args[1], dir) ELSE ExpandArgs(args, dir, <<>>)

\* lines 38-57
ConvertValidFiles(args, dir) == FilterExt(ConvertExpand(args, dir), PPTX_EXT, <<>>)

\* lines 143-156
MergeValidFiles(args, dir) == FilterExt(ExpandArgs(args, dir, <<>>), PDF_EXT, <<>>)

----------------------------------------------------------------------------
(* Values of the variables a part of the program does not use *)

NotCalled == [ok |-> FALSE, error |-> "not called", indices |-> <<>>]

NoOutput == [written |-> FALSE, content |-> <<>>]

IdleRange ==
    /\ input_str = <<>>
    /\ max_len = 0
    /\ result = NotCalled

IdleConversion ==
    /\ dir_created = FALSE
    /\ behaviour = <<>>
    /\ outcome = <<>>
    /\ status = <<>>
    /\ pending_exc = FALSE
    /\ seq_outcome = <<>>

IdleMerge ==
    /\ order_input = <<>>
    /\ prompted = FALSE
    /\ ordered_files = <<>>
    /\ checked = <<>>
    /\ merged = <<>>
    /\ output = NoOutput

----------------------------------------------------------------------------
(* convert_single and convert_pptx_to_pdf *)

\* line 70: max_workers
NUM_WORKERS == 4

\* what the environment does to one job: the file is missing (line 15), the
\* converter exits zero or non-zero (lines 19-29), or subprocess.run cannot
\* start it and raises an OSError, which line 27 does not catch
Behaviours == {"ok", "missing", "nonzero", "oserror"}

\* a convert_single whose except clause does not catch the converter's failure
ConvertSingleUncaught(b) ==
    CASE b = "missing" -> "skipped"
      [] b = "ok" -> "converted"
      [] b = "nonzero" -> "raised"
      [] b = "oserror" -> "raised"

\* lines 13-29: the result of convert_single under each behaviour
ConvertSingle(b) ==
    CASE b = "missing" -> "skipped"
      [] b = "ok" -> "converted"
      [] b = "nonzero" -> "skipped"
      [] b = "oserror" -> "raised"

\* a job's behaviour is drawn when the job first runs and is the same from then on
BehaviourOf(i, b) == b \in Behaviours /\ behaviour[i] \in {"unknown", b}

\* line 59: not valid_files
NoValidFiles(files) == Len(files) = 0

\* lines 59-66: os.makedirs runs only past the sys.exit of line 61
MakedirsReached(files) == ~NoValidFiles(files)

\* a comprehension that leaves the last file out
JobsToSubmitShort(files) == Len(files) - 1

\* line 71: one future per file of valid_files
JobsToSubmit(files) == Len(files)

Jobs == 1..Len(valid_files)

Running == {i \in Jobs : status[i] = "running"}

\* line 70: the pool runs at most max_workers calls at a time
PoolHasFreeWorker == Cardinality(Running) < NUM_WORKERS

\* a shutdown(wait=False): the with block is left with jobs still running
ShutdownNoWait == TRUE

\* line 70: leaving the with block calls shutdown(wait=True)
ShutdownMayReturn == \A i \in Jobs : status[i] # "new" => status[i] = "finished"

\* the state a conversion starts in once valid_files is known
StartConversion(files) ==
    /\ valid_files' = files
    /\ behaviour' = [i \in 1..Len(files) |-> "unknown"]
    /\ outcome' = [i \in 1..Len(files) |-> "pending"]
    /\ status' = [i \in 1..Len(files) |-> "new"]
    /\ pending_exc' = FALSE
    /\ pos' = 1

\* lines 77-78, with convert_single: the sequential loop handles one file
SeqConvert ==
    /\ pc = "sequential"
    /\ pos <= Len(valid_files)
    /\ \E b \in Behaviours :
        /\ BehaviourOf(pos, b)
        /\ behaviour' = [behaviour EXCEPT ![pos] = b]
        /\ outcome' = [outcome EXCEPT ![pos] = ConvertSingle(b)]
        /\ IF ConvertSingle(b) = "raised"
           THEN /\ pc' = "raised"
                /\ exit_code' = 1
                /\ pos' = pos
           ELSE /\ pos' = pos + 1
                /\ pc' = IF pos = Len(valid_files) THEN "done" ELSE "sequential"
                /\ exit_code' = IF pos = Len(valid_files) THEN 0 ELSE exit_code
    /\ UNCHANGED <<rangeVars, cliVars, valid_files, mergeVars>>
    /\ UNCHANGED <<dir_created, status, pending_exc, seq_outcome>>

\* line 71: executor.submit for the next file
Submit ==
    /\ pc = "submit"
    /\ pos <= JobsToSubmit(valid_files)
    /\ status' = [status EXCEPT ![pos] = "queued"]
    /\ pos' = pos + 1
    /\ pc' = IF pos = JobsToSubmit(valid_files) THEN "collect" ELSE "submit"
    /\ UNCHANGED <<rangeVars, cliVars, valid_files, mergeVars, exit_code>>
    /\ UNCHANGED <<dir_created, behaviour, outcome, pending_exc, seq_outcome>>

\* the pool hands the oldest queued call to a free worker process
StartJob(i) ==
    /\ pc \in {"submit", "collect", "shutdown"}
    /\ status[i] = "queued"
    /\ \A j \in 1..(i - 1) : status[j] # "queued"
    /\ PoolHasFreeWorker
    /\ status' = [status EXCEPT ![i] = "running"]
    /\ UNCHANGED <<rangeVars, cliVars, valid_files, mergeVars, pc, exit_code, pos>>
    /\ UNCHANGED <<dir_created, behaviour, outcome, pending_exc, seq_outcome>>

\* lines 13-29 in a worker process: convert_single ends, the future is done
FinishJob(i) ==
    /\ pc \in {"submit", "collect", "shutdown"}
    /\ status[i] = "running"
    /\ \E b \in Behaviours :
        /\ BehaviourOf(i, b)
        /\ behaviour' = [behaviour EXCEPT ![i] = b]
        /\ outcome' = [outcome EXCEPT ![i] = ConvertSingle(b)]
    /\ status' = [status EXCEPT ![i] = "finished"]
    /\ UNCHANGED <<rangeVars, cliVars, valid_files, mergeVars, pc, exit_code, pos>>
    /\ UNCHANGED <<dir_created, pending_exc, seq_outcome>>

\* lines 73-74: the loop takes the result of each future as it completes; a
\* future that holds a worker's exception re-raises it and the loop is left
ResultRaises(i) ==
    /\ pc = "collect"
    /\ status[i] = "finished"
    /\ outcome[i] = "raised"
    /\ pending_exc' = TRUE
    /\ pc' = "shutdown"
    /\ UNCHANGED <<rangeVars, cliVars, valid_files, mergeVars, exit_code, pos>>
    /\ UNCHANGED <<dir_created, behaviour, outcome, status, seq_outcome>>

\* lines 73-74: every future has completed and none re-raised; the loop ends
AllCompleted ==
    /\ pc = "collect"
    /\ \A i \in Jobs : status[i] # "new" => status[i] = "finished" /\ outcome[i] # "raised"
    /\ pc' = "shutdown"
    /\ UNCHANGED <<rangeVars, cliVars, valid_files, mergeVars, exit_code, pos, convVars>>

\* line 70: the with block is left; then convert_pptx_to_pdf returns to line
\* 220, or the exception goes up and ends the program
Shutdown ==
    /\ pc = "shutdown"
    /\ ShutdownMayReturn
    /\ pc' = IF pending_exc THEN "raised" ELSE "done"
    /\ exit_code' = IF pending_exc THEN 1 ELSE 0
    /\ UNCHANGED <<rangeVars, cliVars, valid_files, mergeVars, pos, convVars>>

\* lines 195-202: fewer than four arguments print the usage
ArgvLen == 3 + Len(input_args) + (IF parallel THEN 1 ELSE 0)

Usage ==
    /\ pc = "start"
    /\ ArgvLen < 4
    /\ pc' = "exit"
    /\ exit_code' = 1
    /\ UNCHANGED <<rangeVars, cliVars, valid_files, mergeVars, pos, convVars>>

\* lines 229-231
UnknownAction ==
    /\ pc = "start"
    /\ ArgvLen >= 4
    /\ argv_action \notin {"--convert", "--merge"}
    /\ pc' = "exit"
    /\ exit_code' = 1
    /\ UNCHANGED <<rangeVars, cliVars, valid_files, mergeVars, pos, convVars>>

\* lines 205-219 and 38-66: the files are resolved; none left ends the program
ConvertResolve ==
    /\ pc = "start"
    /\ ArgvLen >= 4
    /\ argv_action = "--convert"
    /\ LET files == ConvertValidFiles(input_args, listing)
       IN  /\ StartConversion(files)
           /\ dir_created' = MakedirsReached(files)
           /\ pc' = IF NoValidFiles(files) THEN "exit"
                    ELSE IF parallel THEN "submit" ELSE "sequential"
           /\ exit_code' = IF NoValidFiles(files) THEN 1 ELSE exit_code
    /\ UNCHANGED <<rangeVars, cliVars, mergeVars, seq_outcome>>

----------------------------------------------------------------------------
(* interactive_merge_order and merge_pdfs *)

\* the characters the answer to the order prompt is drawn from
SelChars == {"1", "2", ",", "-", " ", "x"}

\* the answers tried in a run of the whole program: Enter, a swap, a bad token
Answers == {<<>>, <<"2", ",", "1">>, <<"x">>}

\* line 130: [valid_files[idx] for idx in indices]
PickFiles(files, indices) == [k \in 1..Len(indices) |-> files[indices[k] + 1]]

\* an order that keeps what was parsed before the bad token and drops the rest
OrderAfterErrorPartial(files, stripped) ==
    LET r == ParseTokens(<<Head(Split(stripped, ","))>>, <<>>)
    IN  IF r.ok /\ \A k \in 1..Len(r.indices) : ~IndexOutOfRange(r.indices[k], Len(files))
        THEN PickFiles(files, r.indices)
        ELSE files

\* lines 132-134: a ValueError falls back to the default order
OrderAfterError(files, stripped) == files

\* an order that applies the selection sorted
OrderSelectedSorted(files, indices) ==
    PickFiles(files, [k \in 1..Len(indices) |->
        CHOOSE v \in 0..(Len(files) - 1) :
            /\ Cardinality({j \in 1..Len(indices) : indices[j] < v}) < k
            /\ Cardinality({j \in 1..Len(indices) : indices[j] <= v}) >= k])

\* lines 129-131: the files in the order of the parsed indices
OrderSelected(files, indices) == PickFiles(files, indices)

\* lines 125-134, order_input being the stripped answer
interactive_merge_order(files, stripped) ==
    IF stripped = <<>> THEN files
    ELSE LET r == parse_range_input(stripped, Len(files))
         IN  IF r.ok THEN OrderSelected(files, r.indices)
             ELSE OrderAfterError(files, stripped)

\* a threshold that lets a single file through
TooFewFilesLoose(files) == Len(files) < 1

\* line 158: len(valid_files) < 2
TooFewFiles(files) == Len(files) < 2

\* lines 225-227 and 143-160: the files are resolved; fewer than two ends the program
MergeResolve ==
    /\ pc = "start"
    /\ ArgvLen >= 4
    /\ argv_action = "--merge"
    /\ LET files == MergeValidFiles(input_args, listing)
       IN  /\ valid_files' = files
           /\ pc' = IF TooFewFiles(files) THEN "exit" ELSE "prompt"
           /\ exit_code' = IF TooFewFiles(files) THEN 1 ELSE exit_code
    /\ UNCHANGED <<rangeVars, cliVars, mergeVars, pos, convVars>>

\* lines 166-177 and 121-134: the answer is read and stripped, the order is set
Prompt ==
    /\ pc = "prompt"
    /\ order_input' = Strip(stdin)
    /\ ordered_files' = interactive_merge_order(valid_files, Strip(stdin))
    /\ prompted' = TRUE
    /\ pos' = 1
    /\ pc' = "append"
    /\ UNCHANGED <<rangeVars, cliVars, valid_files, exit_code, convVars>>
    /\ UNCHANGED <<checked, merged, output>>

\* a loop that gives up the merge at the first missing file
AfterMissingAbort(last) == "exit"

\* lines 178-181: continue goes on with the next file, or on to the write
AfterMissing(last) == IF last THEN "write" ELSE "append"

\* lines 178-182: one file is tested with os.path.exists, then appended
AppendStep ==
    /\ pc = "append"
    /\ pos <= Len(ordered_files)
    /\ \E exists \in BOOLEAN :
        /\ checked' = Append(checked, exists)
        /\ merged' = IF exists THEN Append(merged, ordered_files[pos]) ELSE merged
        /\ pc' = IF exists
                 THEN (IF pos = Len(ordered_files) THEN "write" ELSE "append")
                 ELSE AfterMissing(pos = Len(ordered_files))
        /\ exit_code' = IF ~exists /\ AfterMissing(pos = Len(ordered_files)) = "exit"
                        THEN 1 ELSE exit_code
    /\ pos' = pos + 1
    /\ UNCHANGED <<rangeVars, cliVars, valid_files, convVars>>
    /\ UNCHANGED <<order_input, prompted, ordered_files, output>>

\* lines 184-193: merger.write puts the appended files in the output, or throws
Write ==
    /\ pc = "write"
    /\ \E written \in BOOLEAN :
        /\ output' = IF written THEN [written |-> TRUE, content |-> merged] ELSE output
        /\ pc' = IF written THEN "done" ELSE "exit"
        /\ exit_code' = IF written THEN 0 ELSE 1
    /\ UNCHANGED <<rangeVars, cliVars, valid_files, pos, convVars>>
    /\ UNCHANGED <<order_input, prompted, ordered_files, checked, merged>>

----------------------------------------------------------------------------
(* The program: one run of the command line *)

Items == FileNames \cup Patterns

\* the directory listings of at most n files
Listings(n) ==
    {d \in SeqsUpTo(FileNames, n) : \A i, j \in 1..Len(d) : i # j => d[i] # d[j]}

Init ==
    /\ argv_action \in {"--convert", "--merge", "--version"}
    /\ parallel \in BOOLEAN
    /\ argv_action # "--convert" => parallel = FALSE
    /\ input_args \in SeqsUpTo(Items, MaxArgs)
    /\ listing \in Listings(MaxDir)
    /\ stdin \in Answers
    /\ argv_action # "--merge" => stdin = <<>>
    /\ pc = "start"
    /\ exit_code = -1
    /\ valid_files = <<>>
    /\ pos = 1
    /\ IdleRange
    /\ IdleConversion
    /\ IdleMerge

Next ==
    \/ Usage
    \/ UnknownAction
    \/ ConvertResolve
    \/ SeqConvert
    \/ Submit
    \/ \E i \in Jobs : StartJob(i)
    \/ \E i \in Jobs : FinishJob(i)
    \/ \E i \in Jobs : ResultRaises(i)
    \/ AllCompleted
    \/ Shutdown
    \/ MergeResolve
    \/ Prompt
    \/ AppendStep
    \/ Write

Spec == Init /\ [][Next]_vars

----------------------------------------------------------------------------
(* The same batch converted twice: sequentially, then through the pool *)

InitModes ==
    /\ argv_action = "--convert"
    /\ parallel = FALSE
    /\ \E n \in 1..MaxJobs :
        /\ input_args = [i \in 1..n |-> C_PPTX]
        /\ valid_files = [i \in 1..n |-> C_PPTX]
        /\ behaviour = [i \in 1..n |-> "unknown"]
        /\ outcome = [i \in 1..n |-> "pending"]
        /\ status = [i \in 1..n |-> "new"]
    /\ listing = <<>>
    /\ stdin = <<>>
    /\ pc = "sequential"
    /\ exit_code = -1
    /\ pos = 1
    /\ dir_created = TRUE
    /\ pending_exc = FALSE
    /\ seq_outcome = <<>>
    /\ IdleRange
    /\ IdleMerge

\* the sequential run has ended; the same files are converted with --parallel
RunParallel ==
    /\ pc \in {"done", "raised"}
    /\ ~parallel
    /\ parallel' = TRUE
    /\ seq_outcome' = outcome
    /\ outcome' = [i \in Jobs |-> "pending"]
    /\ pc' = "submit"
    /\ exit_code' = -1
    /\ pos' = 1
    /\ UNCHANGED <<rangeVars, argv_action, input_args, listing, stdin, valid_files, mergeVars>>
    /\ UNCHANGED <<dir_created, behaviour, status, pending_exc>>

NextModes ==
    \/ SeqConvert
    \/ RunParallel
    \/ Submit
    \/ \E i \in Jobs : StartJob(i)
    \/ \E i \in Jobs : FinishJob(i)
    \/ \E i \in Jobs : ResultRaises(i)
    \/ AllCompleted
    \/ Shutdown

SpecModes == InitModes /\ [][NextModes]_vars

----------------------------------------------------------------------------
(* A merge from the prompt on: the files are resolved, the answer is any string *)

PdfNames == {A_PDF, B_PDF}

InitMerge ==
    /\ argv_action = "--merge"
    /\ parallel = FALSE
    /\ valid_files \in SeqsUpTo(PdfNames, MaxFiles)
    /\ ~TooFewFiles(valid_files)
    /\ input_args = valid_files
    /\ listing = <<>>
    /\ stdin \in SeqsUpTo(SelChars, MaxSelLen)
    /\ pc = "prompt"
    /\ exit_code = -1
    /\ pos = 1
    /\ IdleRange
    /\ IdleConversion
    /\ IdleMerge

NextMerge ==
    \/ Prompt
    \/ AppendStep
    \/ Write

SpecMerge == InitMerge /\ [][NextMerge]_vars

----------------------------------------------------------------------------
(* The range parser on its own: a call with any string and any max_len *)

InitRange ==
    /\ input_str \in SeqsUpTo(RangeChars, MaxStrLen)
    /\ max_len \in 0..MaxLen
    /\ result = NotCalled
    /\ argv_action = ""
    /\ parallel = FALSE
    /\ input_args = <<>>
    /\ listing = <<>>
    /\ stdin = <<>>
    /\ pc = "call"
    /\ exit_code = -1
    /\ valid_files = <<>>
    /\ pos = 1
    /\ IdleConversion
    /\ IdleMerge

\* lines 80-113: the call returns or raises
CallParse ==
    /\ pc = "call"
    /\ result' = parse_range_input(input_str, max_len)
    /\ pc' = "called"
    /\ UNCHANGED <<input_str, max_len, cliVars, exit_code, valid_files, pos>>
    /\ UNCHANGED <<convVars, mergeVars>>

NextRange == CallParse

SpecRange == InitRange /\ [][NextRange]_vars

----------------------------------------------------------------------------
(* What the claims speak of, stated without the program's loops *)

CommaSet(s) == {i \in 1..Len(s) : s[i] = ","}

TokenCount(s) == Cardinality(CommaSet(s)) + 1

\* the position of the n-th comma of s
NthComma(s, n) ==
    CHOOSE i \in CommaSet(s) : Cardinality({j \in CommaSet(s) : j < i}) = n - 1

\* the k-th comma-separated token of s
TokenAt(s, k) ==
    SubSeq(s,
           IF k = 1 THEN 1 ELSE NthComma(s, k - 1) + 1,
           IF k = TokenCount(s) THEN Len(s) ELSE NthComma(s, k) - 1)

\* t without the blanks around it
Trimmed(t) ==
    LET solid == {i \in 1..Len(t) : t[i] # " "}
    IN  IF solid = {} THEN <<>>
        ELSE SubSeq(t, CHOOSE i \in solid : \A j \in solid : i <= j,
                       CHOOSE i \in solid : \A j \in solid : i >= j)

IsNumeral(t) ==
    /\ t # <<>>
    /\ \A i \in 1..Len(t) : t[i] \in {"0", "1", "2", "3", "4", "5", "6", "7", "8", "9"}

RECURSIVE NumeralFrom(_, _)
NumeralFrom(t, acc) ==
    IF t = <<>> THEN acc
    ELSE NumeralFrom(Tail(t), 10 * acc + (CHOOSE n \in 0..9 : Digits[n + 1] = Head(t)))

NumeralVal(t) == NumeralFrom(t, 0)

DelimSet(t) == {i \in 1..Len(t) : t[i] \in {"-", ":"}}

DelimAt(t) == CHOOSE i \in DelimSet(t) : TRUE

RangeLeft(t) == Trimmed(SubSeq(t, 1, DelimAt(t) - 1))

RangeRight(t) == Trimmed(SubSeq(t, DelimAt(t) + 1, Len(t)))

\* a-b or a:b with integer bounds
IsRangeToken(t) ==
    /\ Cardinality(DelimSet(t)) = 1
    /\ IsNumeral(RangeLeft(t))
    /\ IsNumeral(RangeRight(t))

TokenWellFormed(t) == IsNumeral(Trimmed(t)) \/ IsRangeToken(Trimmed(t))

RangeInverted(t) ==
    /\ IsRangeToken(Trimmed(t))
    /\ NumeralVal(RangeLeft(Trimmed(t))) > NumeralVal(RangeRight(Trimmed(t)))

\* what one token stands for: n gives n-1, a-b gives a-1, ..., b-1
TokenExpansion(t) ==
    LET u == Trimmed(t)
    IN  IF IsNumeral(u) THEN <<NumeralVal(u) - 1>>
        ELSE IF IsRangeToken(u) /\ ~RangeInverted(t)
        THEN [k \in 1..(NumeralVal(RangeRight(u)) - NumeralVal(RangeLeft(u)) + 1) |->
                 NumeralVal(RangeLeft(u)) + k - 2]
        ELSE <<>>

RECURSIVE ExpansionsFrom(_, _)
ExpansionsFrom(s, k) ==
    IF k > TokenCount(s) THEN <<>>
    ELSE TokenExpansion(TokenAt(s, k)) \o ExpansionsFrom(s, k + 1)

\* the left-to-right concatenation of the tokens' expansions
ExpectedIndices(s) == ExpansionsFrom(s, 1)

\* the selection must be refused: a bad token, an inverted range, a position outside
MustBeRefused(s, m) ==
    \/ \E k \in 1..TokenCount(s) : ~TokenWellFormed(TokenAt(s, k))
    \/ \E k \in 1..TokenCount(s) : RangeInverted(TokenAt(s, k))
    \/ LET e == ExpectedIndices(s)
       IN  \E k \in 1..Len(e) : e[k] < 0 \/ e[k] >= m

SameLetter(c, d) ==
    c = d \/ \E k \in 1..26 : {c, d} = {UpperCase[k], LowerCase[k]}

\* the name ends in ext, whatever the case of its letters
EndsInExt(file, ext) ==
    /\ Len(file) >= Len(ext)
    /\ \A j \in 1..Len(ext) : SameLetter(file[Len(file) - Len(ext) + j], ext[j])

RECURSIVE ConcatAll(_)
ConcatAll(ss) == IF ss = <<>> THEN <<>> ELSE Head(ss) \o ConcatAll(Tail(ss))

\* a literal path stands for itself, a pattern for its glob matches
Contribution(item, dir) ==
    IF \E i \in 1..Len(item) : item[i] \in {"*", "?"} THEN Glob(item, dir) ELSE <<item>>

ExpectedResolved(args, dir, ext) ==
    SelectSeq(ConcatAll([i \in 1..Len(args) |-> Contribution(args[i], dir)]),
              LAMBDA f : EndsInExt(f, ext))

\* the entries of xs at the positions flagged in keep, in order
KeptOf(xs, keep) ==
    LET at == {k \in 1..Len(keep) : keep[k]}
    IN  [j \in 1..Cardinality(at) |->
            xs[CHOOSE k \in at : Cardinality({l \in at : l < k}) = j - 1]]

Resolved == pc # "start" /\ ArgvLen >= 4 /\ argv_action \in {"--convert", "--merge"}

RequiredExt == IF argv_action = "--convert" THEN PPTX_EXT ELSE PDF_EXT

ConversionStep ==
    \/ SeqConvert
    \/ Submit
    \/ \E i \in Jobs : StartJob(i)
    \/ \E i \in Jobs : FinishJob(i)
    \/ \E i \in Jobs : ResultRaises(i)
    \/ AllCompleted
    \/ Shutdown

FileLevelOnly == \A i \in Jobs : behaviour[i] # "oserror"

----------------------------------------------------------------------------
(* The claims *)

\* C1: a string parse_range_input accepts gives the concatenation, token by
\* token from left to right, of the tokens' expansions (n gives n-1; a-b or a:b
\* gives a-1 .. b-1), order and repeats kept, every index in [0, max_len).
C1_AcceptedIsConcatenation ==
    (pc = "called" /\ result.ok) =>
        /\ result.indices = ExpectedIndices(input_str)
        /\ \A k \in 1..Len(result.indices) :
               result.indices[k] >= 0 /\ result.indices[k] < max_len

\* C1 witness: an accepted string with a colon range whose result is out of
\* order and repeats an index
C1_Witness ==
    /\ pc = "called"
    /\ result.ok
    /\ Contains(input_str, ":")
    /\ Len(result.indices) = 3
    /\ result.indices[1] = result.indices[3]
    /\ result.indices[2] < result.indices[1]

\* C2: a token that is no integer and no two-part range of integers, a range
\* with start > end, or a position < 0 or >= max_len makes parse_range_input
\* raise; a raise returns no list, not even a partial one.
C2_InvalidIsRefused ==
    (pc = "called" /\ MustBeRefused(input_str, max_len)) =>
        /\ ~result.ok
        /\ result.error # ""
        /\ result.indices = <<>>

\* C2 witness: the first token is a valid position, a later one (the input 0)
\* is out of bounds, and the call raised
C2_Witness ==
    /\ pc = "called"
    /\ ~result.ok
    /\ result.error = "One or more indices are out of valid range."
    /\ TokenCount(input_str) >= 2
    /\ IsNumeral(TokenAt(input_str, 1))
    /\ NumeralVal(TokenAt(input_str, 1)) \in 1..max_len
    /\ \E k \in 2..TokenCount(input_str) : TokenAt(input_str, k) = <<"0">>

\* C3: the resolved file set is the concatenation, in argument order, of each
\* argument's contribution (a literal path itself, a pattern with * or ? its
\* glob matches) with exactly the entries not ending, case-insensitively, in
\* the required extension removed.
C3_ResolvedIsFilteredConcatenation ==
    Resolved => valid_files = ExpectedResolved(input_args, listing, RequiredExt)

\* C3 witness: a merge of a literal path followed by a pattern, where the
\* pattern matched a file that the extension filter dropped
C3_Witness ==
    /\ Resolved
    /\ argv_action = "--merge"
    /\ input_args = <<B_PDF, PAT_ALL>>
    /\ \E i \in 1..Len(listing) : listing[i] = C_PPTX
    /\ valid_files = <<B_PDF, A_PDF>>

\* C4: with per-file behaviours among file present or missing and converter
\* exit zero or non-zero, the parallel run of a batch ends with the same
\* per-file outcome as its sequential run, under every interleaving.
C4_ParallelMatchesSequential ==
    (parallel /\ pc \in {"done", "raised"} /\ FileLevelOnly) =>
        /\ outcome = seq_outcome
        /\ \A i \in Jobs : outcome[i] \in {"converted", "skipped"}

\* C4 witness: a batch of more files than workers, some converted and some
\* skipped, has ended in both modes
C4_Witness ==
    /\ parallel
    /\ pc = "done"
    /\ Len(valid_files) > NUM_WORKERS
    /\ outcome = seq_outcome
    /\ \E i \in Jobs : outcome[i] = "converted"
    /\ \E i \in Jobs : behaviour[i] = "missing" /\ outcome[i] = "skipped"
    /\ \E i \in Jobs : behaviour[i] = "nonzero" /\ outcome[i] = "skipped"

\* C5: a selection the range parser accepts as i1..ik puts the files in the
\* order resolved[i1], ..., resolved[ik] (a repeated index repeats the file);
\* an empty selection keeps the resolved order; the files are appended in
\* that order.
C5_SelectionSetsOrder ==
    (argv_action = "--merge" /\ pc \notin {"start", "prompt"} /\ prompted) =>
        /\ order_input = <<>> => ordered_files = valid_files
        /\ (order_input # <<>> /\ ~MustBeRefused(order_input, Len(valid_files))) =>
               LET e == ExpectedIndices(order_input)
               IN  ordered_files = [k \in 1..Len(e) |-> valid_files[e[k] + 1]]
        /\ (\A k \in 1..Len(checked) : checked[k]) =>
               merged = SubSeq(ordered_files, 1, Len(checked))

\* C5 witness: the answer "2,1" over two different files has been merged
C5_Witness ==
    /\ pc = "done"
    /\ order_input = <<"2", ",", "1">>
    /\ valid_files[1] # valid_files[2]
    /\ output.written
    /\ output.content = <<valid_files[2], valid_files[1]>>

\* C6: a selection that fails validation (bad token, start > end, index out
\* of bounds) is discarded whole: the merge goes on, in the resolved order.
C6_InvalidSelectionFallsBack ==
    (/\ argv_action = "--merge"
     /\ prompted
     /\ order_input # <<>>
     /\ MustBeRefused(order_input, Len(valid_files))) =>
        /\ ordered_files = valid_files
        /\ pc \in {"append", "write", "done", "exit"}
        /\ pc = "exit" => Len(checked) = Len(valid_files)
        /\ pc = "done" => output.content = KeptOf(valid_files, checked)

\* C6 witness: the answer "1,x", whose first token is valid, ended in a merge
\* of all the files in the resolved order
C6_Witness ==
    /\ pc = "done"
    /\ order_input = <<"1", ",", "x">>
    /\ Len(valid_files) = 2
    /\ output.content = valid_files

\* C7: each file of the final order is tested for existence right before it
\* is appended; a missing one is skipped and the merge goes on; the output
\* holds exactly the files that existed at their test, in order, even when
\* that leaves fewer than two.
C7_MissingFilesAreSkipped ==
    (argv_action = "--merge" /\ prompted) =>
        /\ Len(checked) = pos - 1
        /\ merged = KeptOf(ordered_files, checked)
        /\ pc \in {"exit", "done", "write"} => Len(checked) = Len(ordered_files)
        /\ pc = "done" => output.written /\ output.content = merged
        /\ pc \in {"append", "write"} => ENABLED (AppendStep \/ Write)

\* C7 witness: of two files the second was missing at its test, and the
\* output was written with the first alone
C7_Witness ==
    /\ pc = "done"
    /\ Len(ordered_files) = 2
    /\ checked = <<TRUE, FALSE>>
    /\ output.written
    /\ output.content = <<ordered_files[1]>>

\* C8: a conversion with no file left by the filter, and a merge with fewer
\* than two, end with exit status 1 before any work: no output directory, no
\* converter job, no prompt, no output file.
C8_ResolutionFailureIsFatal ==
    (/\ Resolved
     /\ \/ argv_action = "--convert" /\ Len(valid_files) = 0
        \/ argv_action = "--merge" /\ Len(valid_files) < 2) =>
        /\ pc = "exit"
        /\ exit_code = 1
        /\ ~dir_created
        /\ \A i \in DOMAIN status : status[i] = "new" /\ outcome[i] = "pending"
        /\ ~prompted
        /\ checked = <<>>
        /\ merged = <<>>
        /\ ~output.written

\* C8 witness: a merge ended with status 1 with a single valid PDF resolved
C8_Witness ==
    /\ Resolved
    /\ argv_action = "--merge"
    /\ Len(valid_files) = 1
    /\ pc = "exit"
    /\ exit_code = 1

\* C9: a missing file or a failing converter never ends the batch: the file
\* is skipped, every other file is still handled, and the run ends with
\* status 0, even with nothing converted.
C9_FileErrorsDoNotAbort ==
    FileLevelOnly =>
        /\ pc # "raised"
        /\ exit_code # 1
        /\ pc \in {"sequential", "submit", "collect", "shutdown"} => ENABLED ConversionStep
        /\ pc = "done" =>
              /\ exit_code = 0
              /\ \A i \in Jobs :
                    /\ behaviour[i] \in {"missing", "nonzero"} => outcome[i] = "skipped"
                    /\ behaviour[i] = "ok" => outcome[i] = "converted"
                    /\ behaviour[i] # "unknown"

\* C9 witness: a batch in which every file was missing or failed to convert
\* has ended with status 0
C9_Witness ==
    /\ pc = "done"
    /\ exit_code = 0
    /\ Len(valid_files) >= 3
    /\ \A i \in Jobs : outcome[i] = "skipped"
    /\ \E i \in Jobs : behaviour[i] = "missing"
    /\ \E i \in Jobs : behaviour[i] = "nonzero"

\* C10: in parallel mode at most 4 jobs run at a time, every resolved file is
\* submitted, and control goes back to the caller, normally or with a
\* worker's exception, only once every submitted job has finished.
C10_PoolBoundAndJoin ==
    /\ Cardinality(Running) <= NUM_WORKERS
    /\ (parallel /\ pc \in {"collect", "shutdown", "done", "raised"}) =>
           \A i \in Jobs : status[i] # "new"
    /\ (parallel /\ pc \in {"done", "raised"}) =>
           \A i \in Jobs : status[i] = "finished" /\ outcome[i] # "pending"
    /\ ~parallel => \A i \in Jobs : status[i] = "new"

\* C10 witness: the main process holds a worker's exception while four jobs
\* are still running
C10_Witness ==
    /\ parallel
    /\ pc = "shutdown"
    /\ pending_exc
    /\ Cardinality(Running) = NUM_WORKERS

====
